---- MODULE Spec2Model ----
(***************************************************************************)
(* Model of Efemerides.py: the GPS week / day-of-year conversion, the      *)
(* construction and download of the ephemeris products, the DMS coordinate *)
(* form and the "Generar Mapa" nearest-station ranking.                    *)
(*                                                                         *)
(* Three specifications share the variables:                               *)
(*   SpecGps  calculate_gps_week_number applied to every date of a window  *)
(*            around the GPS epoch;                                        *)
(*   Spec     the sidebar's download form and download_efemerides, one     *)
(*            HEAD / GET request per step;                                 *)
(*   SpecMap  the DMS coordinate form and the "Generar Mapa" handler.      *)
(***************************************************************************)
EXTENDS Integers, Sequences, FiniteSets, TLC

VARIABLES
    selected_date,      \* st.sidebar.date_input: [year, month, day]
    download_precise,   \* checkbox
    download_rapid,     \* checkbox
    download_gfz,       \* checkbox
    pc,                 \* position of the script: "idle", "head", "get", "done"
    gps,                \* <<>> or <<frame of calculate_gps_week_number>>
    files_to_download,  \* list of (url, label, compression_type)
    idx,                \* position of the for loop in files_to_download
    download_info,      \* list of {label, filename, status, local_path}
    requests_log,       \* every HTTP request issued by the run: [method, url, outcome]
    ui_message,         \* what the download section last displayed
    tmpdir,             \* tempfile.mkdtemp() of the run
    prev_run,           \* <<>> or <<the previous completed run: inputs, files, info>>
    dms_input,          \* the six number_input widgets of the DMS form
    user_coord,         \* <<>> (None) or <<lat, lon>>
    num_estaciones,     \* slider
    map_result,         \* outcome of the last "Generar Mapa" click
    geodesic_calls      \* reference coordinates handed to geodesic()

vars == <<selected_date, download_precise, download_rapid, download_gfz, pc, gps,
          files_to_download, idx, download_info, requests_log, ui_message, tmpdir,
          prev_run, dms_input, user_coord, num_estaciones, map_result, geodesic_calls>>

downloadVars == <<selected_date, download_precise, download_rapid, download_gfz, pc, gps,
                  files_to_download, idx, download_info, requests_log, ui_message,
                  tmpdir, prev_run>>

mapVars == <<dms_input, user_coord, num_estaciones, map_result, geodesic_calls>>

----------------------------------------------------------------------------
(* Bounds of the model *)

\* years of the date window before and after the year of the GPS epoch
YearsBefore == 1
YearsAfter == 1

----------------------------------------------------------------------------
(* datetime: the proleptic Gregorian calendar, as datetime computes         *)
(* ordinals (date subtraction, timetuple().tm_yday)                         *)

IsLeap(y) == y % 4 = 0 /\ (y % 100 # 0 \/ y % 400 = 0)

DaysInMonth(y, m) ==
    IF m = 2 THEN (IF IsLeap(y) THEN 29 ELSE 28)
    ELSE IF m \in {4, 6, 9, 11} THEN 30 ELSE 31

DaysBeforeYear(y) ==
    (y - 1) * 365 + ((y - 1) \div 4) - ((y - 1) \div 100) + ((y - 1) \div 400)

DaysBeforeMonth(y, m) ==
    <<0, 31, 59, 90, 120, 151, 181, 212, 243, 273, 304, 334>>[m]
        + (IF m > 2 /\ IsLeap(y) THEN 1 ELSE 0)

toordinal(d) == DaysBeforeYear(d.year) + DaysBeforeMonth(d.year, d.month) + d.day

\* str(date) gives "YYYY-MM-DD"; strptime(..., "%Y-%m-%d") reads the three
\* fields back: the text is modelled as the sequence of its three fields.
str_date(d) == <<d.year, d.month, d.day>>

strptime(s) == [year |-> s[1], month |-> s[2], day |-> s[3]]

gps_start_date == [year |-> 1980, month |-> 1, day |-> 6]

\* every valid calendar date of the window
Dates ==
    {[year |-> y, month |-> m, day |-> d] :
        y \in (gps_start_date.year - YearsBefore)..(gps_start_date.year + YearsAfter),
        m \in 1..12, d \in 1..31} \
    {dd \in [year : (gps_start_date.year - YearsBefore)..(gps_start_date.year + YearsAfter),
             month : 1..12, day : 29..31] : dd.day > DaysInMonth(dd.year, dd.month)}

----------------------------------------------------------------------------
(* calculate_gps_week_number *)

\* (target_date - gps_start_date).days
days_since_start_of(target_date) == toordinal(target_date) - toordinal(gps_start_date)

\* division truncating toward zero (C-style), what // is not
TruncDiv(a, b) == IF a >= 0 THEN a \div b ELSE -((-a) \div b)

gps_week_trunc(n) == TruncDiv(n, 7)

\* days_since_start // 7   (Python floor division)
gps_week_of(n) == n \div 7

\* days_since_start % 7    (Python modulo: sign of the divisor)
gps_day_of_week_of(n) == n % 7

gps_week_number_plain(week, dow) == week + dow

\* gps_week * 10 + gps_day_of_week
gps_week_number_of(week, dow) == week * 10 + dow

\* target_date.timetuple().tm_yday
tm_yday(target_date) ==
    toordinal(target_date) - toordinal([year |-> target_date.year, month |-> 1, day |-> 1]) + 1

\* The frame of one call: the locals and, among them, the four returned values
\* (gps_week, gps_week_number, day_of_year, year).
calculate_gps_week_number(date) ==
    LET target_date == strptime(str_date(date))
        days_since_start == days_since_start_of(target_date)
        week == gps_week_of(days_since_start)
        dow == gps_day_of_week_of(days_since_start)
    IN  [days_since_start |-> days_since_start,
         gps_week |-> week,
         gps_day_of_week |-> dow,
         gps_week_number |-> gps_week_number_of(week, dow),
         day_of_year |-> tm_yday(target_date),
         year |-> target_date.year]

----------------------------------------------------------------------------
(* download_efemerides: the products *)

\* f"{day_of_year:03d}"
Pad3(n) ==
    IF n < 0 THEN "-" \o (IF -n < 10 THEN "0" ELSE "") \o ToString(-n)
    ELSE IF n < 10 THEN "00" \o ToString(n)
    ELSE IF n < 100 THEN "0" \o ToString(n)
    ELSE ToString(n)

\* A URL is the sequence of the segments its "/" separate:
\* http://lox.ucsd.edu/pub/products/{gps_week}/<name>
ProductUrl(week, name) ==
    <<"http:", "", "lox.ucsd.edu", "pub", "products", ToString(week), name>>

precise_url(g) ==
    ProductUrl(g.gps_week,
               "JAX0MGXFIN_" \o ToString(g.year) \o Pad3(g.day_of_year)
                   \o "0000_01D_05M_ORB.SP3.gz")

rapid_url(g) ==
    ProductUrl(g.gps_week, "igr" \o ToString(g.gps_week_number) \o ".sp3.Z")

gfz_url(g) ==
    ProductUrl(g.gps_week,
               "GFZ0OPSRAP_" \o ToString(g.year) \o Pad3(g.day_of_year)
                   \o "0000_01D_05M_ORB.SP3.gz")

FileEntry(url, label, compression_type) ==
    [url |-> url, label |-> label, compression_type |-> compression_type]

build_files_rapid_first(g, precise, rapid, gfz) ==
    (IF rapid THEN <<FileEntry(rapid_url(g), "Rápidas", "Z")>> ELSE <<>>)
    \o (IF precise THEN <<FileEntry(precise_url(g), "Precisas JAX", "gz")>> ELSE <<>>)
    \o (IF gfz THEN <<FileEntry(gfz_url(g), "GFZ", "gz")>> ELSE <<>>)

\* files_to_download after the three "if download_...: append" statements
build_files_to_download(g, precise, rapid, gfz) ==
    (IF precise THEN <<FileEntry(precise_url(g), "Precisas JAX", "gz")>> ELSE <<>>)
    \o (IF rapid THEN <<FileEntry(rapid_url(g), "Rápidas", "Z")>> ELSE <<>>)
    \o (IF gfz THEN <<FileEntry(gfz_url(g), "GFZ", "gz")>> ELSE <<>>)

\* os.path.basename(url): what follows the last "/"
basename(url) == url[Len(url)]

\* os.path.join(folder_path, local_filename)
path_join(folder_path, local_filename) == <<folder_path, local_filename>>

----------------------------------------------------------------------------
(* check_url, download_file *)

\* what a HEAD request can end in: a status code or a requests.RequestException
HeadOutcomes == {"200", "404", "RequestException"}

\* what requests.get followed by the write of the body can end in: an answer
\* with a status code (the body is written whatever the code) or an exception
GetOutcomes == {"200", "404", "Exception"}

check_url_any_answer(outcome) == outcome # "RequestException"

\* response.status_code == 200, False on RequestException
check_url(outcome) == outcome = "200"

\* True unless requests.get, open or write raised; the status code is not read
download_file(outcome) == outcome # "Exception"

InfoEntryNoName(url, label, status, folder_path) ==
    [label |-> label,
     filename |-> IF status = "No disponible" THEN "" ELSE basename(url),
     status |-> status,
     local_path |-> path_join(folder_path, basename(url))]

\* the dictionary appended to download_info
InfoEntry(url, label, status, folder_path) ==
    [label |-> label,
     filename |-> basename(url),
     status |-> status,
     local_path |-> path_join(folder_path, basename(url))]

----------------------------------------------------------------------------
(* The download section of the sidebar *)

\* the dates offered to the download form: before the epoch, the epoch, a week
\* after it, and a day of year of two digits
DownloadDates ==
    {[year |-> 1980, month |-> 1, day |-> 5],
     [year |-> 1980, month |-> 1, day |-> 6],
     [year |-> 1981, month |-> 3, day |-> 1]}

\* the names tempfile.mkdtemp() may return
TmpDirs == {"tmpA", "tmpB"}

\* the part of a run's entry that does not depend on the network
Summary(info) ==
    [i \in 1..Len(info) |->
        [label |-> info[i].label, filename |-> info[i].filename,
         local_path |-> info[i].local_path]]

DownloadInit ==
    /\ selected_date \in DownloadDates
    /\ download_precise = TRUE
    /\ download_rapid = FALSE
    /\ download_gfz = FALSE
    /\ pc = "idle"
    /\ gps = <<>>
    /\ files_to_download = <<>>
    /\ idx = 0
    /\ download_info = <<>>
    /\ requests_log = <<>>
    /\ ui_message = ""
    /\ tmpdir = ""
    /\ prev_run = <<>>

\* st.sidebar.date_input
SelectDate(d) ==
    /\ pc = "idle"
    /\ selected_date' = d
    /\ UNCHANGED <<download_precise, download_rapid, download_gfz, pc, gps,
                   files_to_download, idx, download_info, requests_log, ui_message,
                   tmpdir, prev_run>>
    /\ UNCHANGED mapVars

\* the three st.sidebar.checkbox
SetCheckboxes(p, r, g) ==
    /\ pc = "idle"
    /\ download_precise' = p
    /\ download_rapid' = r
    /\ download_gfz' = g
    /\ UNCHANGED <<selected_date, pc, gps, files_to_download, idx, download_info,
                   requests_log, ui_message, tmpdir, prev_run>>
    /\ UNCHANGED mapVars

\* the button with no product selected: a warning, nothing else
ClickDownloadNothingSelected ==
    /\ pc = "idle"
    /\ ~download_precise /\ ~download_rapid /\ ~download_gfz
    /\ ui_message' = "warning: select at least one"
    /\ UNCHANGED <<selected_date, download_precise, download_rapid, download_gfz, pc,
                   gps, files_to_download, idx, download_info, requests_log, tmpdir,
                   prev_run>>
    /\ UNCHANGED mapVars

\* the button with a product selected: mkdtemp, then download_efemerides up to
\* the first iteration of its loop
ClickDownload(dir) ==
    /\ pc = "idle"
    /\ download_precise \/ download_rapid \/ download_gfz
    /\ tmpdir' = dir
    /\ gps' = <<calculate_gps_week_number(selected_date)>>
    /\ files_to_download' =
           build_files_to_download(calculate_gps_week_number(selected_date),
                                   download_precise, download_rapid, download_gfz)
    /\ download_info' = <<>>
    /\ requests_log' = <<>>
    /\ idx' = 1
    /\ pc' = "head"
    /\ ui_message' = "spinner"
    /\ UNCHANGED <<selected_date, download_precise, download_rapid, download_gfz,
                   prev_run>>
    /\ UNCHANGED mapVars

\* the end of one iteration: the entry is appended and the loop goes on or returns
AppendInfo(status) ==
    /\ download_info' =
           Append(download_info,
                  InfoEntry(files_to_download[idx].url, files_to_download[idx].label,
                            status, tmpdir))
    /\ idx' = idx + 1
    /\ pc' = IF idx + 1 > Len(files_to_download) THEN "done" ELSE "head"

\* check_url(url): one HEAD request
CheckUrl(outcome) ==
    /\ pc = "head"
    /\ requests_log' =
           Append(requests_log,
                  [method |-> "HEAD", url |-> files_to_download[idx].url,
                   outcome |-> outcome])
    /\ IF check_url(outcome)
       THEN /\ pc' = "get"
            /\ UNCHANGED <<download_info, idx>>
       ELSE AppendInfo("No disponible")
    /\ UNCHANGED <<selected_date, download_precise, download_rapid, download_gfz, gps,
                   files_to_download, ui_message, tmpdir, prev_run>>
    /\ UNCHANGED mapVars

\* download_file(url, local_path): one GET request
DownloadFile(outcome) ==
    /\ pc = "get"
    /\ requests_log' =
           Append(requests_log,
                  [method |-> "GET", url |-> files_to_download[idx].url,
                   outcome |-> outcome])
    /\ AppendInfo(IF download_file(outcome) THEN "Descargado" ELSE "Error al descargar")
    /\ UNCHANGED <<selected_date, download_precise, download_rapid, download_gfz, gps,
                   files_to_download, ui_message, tmpdir, prev_run>>
    /\ UNCHANGED mapVars

\* the status of every product is displayed, the temporary folder is removed
\* and the script ends
ShowStatus ==
    /\ pc = "done"
    /\ ui_message' = "status shown"
    /\ prev_run' = <<[date |-> selected_date,
                      flags |-> <<download_precise, download_rapid, download_gfz>>,
                      folder_path |-> tmpdir,
                      files |-> files_to_download,
                      info |-> download_info]>>
    /\ pc' = "idle"
    /\ gps' = <<>>
    /\ files_to_download' = <<>>
    /\ download_info' = <<>>
    /\ requests_log' = <<>>
    /\ idx' = 0
    /\ tmpdir' = ""
    /\ UNCHANGED <<selected_date, download_precise, download_rapid, download_gfz>>
    /\ UNCHANGED mapVars

Next ==
    \/ \E d \in DownloadDates : SelectDate(d)
    \/ \E p, r, g \in BOOLEAN : SetCheckboxes(p, r, g)
    \/ ClickDownloadNothingSelected
    \/ \E dir \in TmpDirs : ClickDownload(dir)
    \/ \E o \in HeadOutcomes : CheckUrl(o)
    \/ \E o \in GetOutcomes : DownloadFile(o)
    \/ ShowStatus

----------------------------------------------------------------------------
(* The station search: the DMS form *)

\* most stations of a table and largest value of the slider in the model
MaxStations == 3
MaxK == 3

\* Angles are whole numbers of 1/SecScale arc seconds, so that
\* deg + min/60 + sec/3600 is exact: the value is the decimal degrees times
\* UnitsPerDegree.
SecScale == 1000

UnitsPerDegree == 3600 * SecScale

Abs(x) == IF x < 0 THEN -x ELSE x

\* values offered to the six number_input widgets, inside their min_value and
\* max_value (degrees -90..90 and -180..180, minutes 0..59, seconds 0..59.999999)
LatDegValues == {-4, 4, 90}
LonDegValues == {-74, 180}
MinValues == {0, 30}
LatSecValues == {0, 30500}
LonSecValues == {0}

DmsInputs ==
    [lat_deg : LatDegValues, lat_min : MinValues, lat_sec : LatSecValues,
     lon_deg : LonDegValues, lon_min : MinValues, lon_sec : LonSecValues]

\* deg + min / 60 + sec / 3600
dms_to_decimal(deg, min, sec) == deg * UnitsPerDegree + min * 60 * SecScale + sec

\* user_coord after the DMS branch: None unless lat != 0.0 or lon != 0.0
user_coord_of(input) ==
    LET lat == dms_to_decimal(input.lat_deg, input.lat_min, input.lat_sec)
        lon == dms_to_decimal(input.lon_deg, input.lon_min, input.lon_sec)
    IN  IF lat # 0 \/ lon # 0 THEN <<lat, lon>> ELSE <<>>

NoResult == [kind |-> "none", df |-> <<>>, df_sorted |-> <<>>]

MapInit ==
    /\ dms_input = [lat_deg |-> 0, lat_min |-> 0, lat_sec |-> 0,
                    lon_deg |-> 0, lon_min |-> 0, lon_sec |-> 0]
    /\ user_coord = <<>>
    /\ num_estaciones = 5
    /\ map_result = NoResult
    /\ geodesic_calls = {}

\* a value is typed into the form: the script runs again without the button
EnterCoordinates(input) ==
    /\ dms_input' = input
    /\ user_coord' = user_coord_of(input)
    /\ map_result' = NoResult
    /\ geodesic_calls' = {}
    /\ UNCHANGED num_estaciones
    /\ UNCHANGED downloadVars

\* st.sidebar.slider("Numero de estaciones cercanas", 1, 10, 5)
SetNumEstaciones(k) ==
    /\ num_estaciones' = k
    /\ map_result' = NoResult
    /\ geodesic_calls' = {}
    /\ UNCHANGED <<dms_input, user_coord>>
    /\ UNCHANGED downloadVars

----------------------------------------------------------------------------
(* The station search: "Generar Mapa" *)

Station(id, lat_deg, lon_deg) ==
    [Id |-> id, Latitud |-> lat_deg * UnitsPerDegree, Longitud |-> lon_deg * UnitsPerDegree]

\* rows a Coordenadas.csv may hold: two stations on either side of 4 N 74 W
\* and one further away
StationPool == {Station("E1", 5, -74), Station("E2", 3, -74), Station("E3", 8, -74)}

\* pd.read_csv: the tables of at most MaxStations rows, the empty one included
Tables == UNION {[1..n -> StationPool] : n \in 0..MaxStations}

\* geopy's Point: a latitude outside [-90, 90] raises ValueError (geopy 2) or
\* is wrapped with a warning (geopy 1); a longitude is wrapped into [-180, 180)
LatitudeInRange(lat) == Abs(lat) <= 90 * UnitsPerDegree

LongitudeInRange(lon) == Abs(lon) <= 180 * UnitsPerDegree

NormalizeLatitude(lat) ==
    IF LatitudeInRange(lat) THEN lat
    ELSE ((lat + 90 * UnitsPerDegree) % (180 * UnitsPerDegree)) - 90 * UnitsPerDegree

NormalizeLongitude(lon) ==
    IF LongitudeInRange(lon) THEN lon
    ELSE ((lon + 180 * UnitsPerDegree) % (360 * UnitsPerDegree)) - 180 * UnitsPerDegree

\* geodesic(a, b).kilometers. The ellipsoidal length itself is not computed:
\* the distance is the angular separation |dlat| + |dlon| (dlon the short way
\* round), which like the geodesic is 0 for coincident points, symmetric, and
\* equal for rows with equal coordinates.
geodesic(a, b) ==
    LET dlat == Abs(NormalizeLatitude(a[1]) - NormalizeLatitude(b[1]))
        dlon == Abs(NormalizeLongitude(a[2]) - NormalizeLongitude(b[2]))
    IN  dlat + (IF dlon > 180 * UnitsPerDegree THEN 360 * UnitsPerDegree - dlon ELSE dlon)

\* df with its index and the column Distancia_km
WithDistance(df, coord) ==
    [i \in 1..Len(df) |->
        [index |-> i, Id |-> df[i].Id, Latitud |-> df[i].Latitud,
         Longitud |-> df[i].Longitud,
         Distancia_km |-> geodesic(coord, <<df[i].Latitud, df[i].Longitud>>)]]

\* df.sort_values("Distancia_km"): the default kind is quicksort, which is not
\* stable, so rows of equal distance may come out in any order
SortOrders(rows) ==
    {p \in [1..Len(rows) -> 1..Len(rows)] :
        /\ \A i, j \in 1..Len(rows) : i # j => p[i] # p[j]
        /\ \A i, j \in 1..Len(rows) :
               i < j => rows[p[i]].Distancia_km <= rows[p[j]].Distancia_km}

\* .head(n)
head(seq, n) == SubSeq(seq, 1, IF n < Len(seq) THEN n ELSE Len(seq))

\* pd.read_csv raised: the except branch reports the error
GenerarMapaReadError ==
    /\ map_result' = [kind |-> "read_csv_error", df |-> <<>>, df_sorted |-> <<>>]
    /\ geodesic_calls' = {}
    /\ UNCHANGED <<dms_input, user_coord, num_estaciones>>
    /\ UNCHANGED downloadVars

\* user_coord is None: "ingresa una coordenada valida"
GenerarMapaNoCoord(df) ==
    /\ user_coord = <<>>
    /\ map_result' = [kind |-> "no_coord", df |-> df, df_sorted |-> <<>>]
    /\ geodesic_calls' = {}
    /\ UNCHANGED <<dms_input, user_coord, num_estaciones>>
    /\ UNCHANGED downloadVars

\* the distances, sort_values and head raised: the except branch reports it.
\* Two inputs raise. On a table without rows df.apply(..., axis=1) returns a
\* DataFrame (the lambda fails on the probe row, so no reduction is inferred),
\* and assigning a DataFrame of several columns to df["Distancia_km"] raises
\* ValueError. With a latitude outside [-90, 90] geodesic raises ValueError.
GenerarMapaRankingError(df) ==
    /\ user_coord # <<>>
    /\ df = <<>> \/ ~LatitudeInRange(user_coord[1])
    /\ map_result' = [kind |-> "ranking_error", df |-> df, df_sorted |-> <<>>]
    /\ geodesic_calls' = IF df = <<>> THEN {} ELSE {user_coord}
    /\ UNCHANGED <<dms_input, user_coord, num_estaciones>>
    /\ UNCHANGED downloadVars

\* the distances, sort_values and head(num_estaciones). On a table without
\* rows this is reached only with libraries where the probe row does not make
\* the lambda raise, and with a latitude outside [-90, 90] only with a geopy
\* that wraps it.
GenerarMapaRanked(df) ==
    /\ user_coord # <<>>
    /\ \E order \in SortOrders(WithDistance(df, user_coord)) :
           map_result' =
               [kind |-> "ranked",
                df |-> df,
                df_sorted |->
                    head([i \in 1..Len(df) |-> WithDistance(df, user_coord)[order[i]]],
                         num_estaciones)]
    /\ geodesic_calls' = IF df = <<>> THEN {} ELSE {user_coord}
    /\ UNCHANGED <<dms_input, user_coord, num_estaciones>>
    /\ UNCHANGED downloadVars

MapNext ==
    \/ \E input \in DmsInputs : EnterCoordinates(input)
    \/ \E k \in 1..MaxK : SetNumEstaciones(k)
    \/ GenerarMapaReadError
    \/ \E df \in Tables : GenerarMapaNoCoord(df)
    \/ \E df \in Tables : GenerarMapaRankingError(df)
    \/ \E df \in Tables : GenerarMapaRanked(df)

----------------------------------------------------------------------------
(* Specifications *)

\* calculate_gps_week_number on the selected date
GpsCalculate ==
    /\ gps = <<>>
    /\ gps' = <<calculate_gps_week_number(selected_date)>>
    /\ UNCHANGED <<selected_date, download_precise, download_rapid, download_gfz, pc,
                   files_to_download, idx, download_info, requests_log, ui_message,
                   tmpdir, prev_run>>
    /\ UNCHANGED mapVars

GpsInit ==
    /\ selected_date \in Dates
    /\ download_precise = TRUE
    /\ download_rapid = FALSE
    /\ download_gfz = FALSE
    /\ pc = "idle"
    /\ gps = <<>>
    /\ files_to_download = <<>>
    /\ idx = 0
    /\ download_info = <<>>
    /\ requests_log = <<>>
    /\ ui_message = ""
    /\ tmpdir = ""
    /\ prev_run = <<>>
    /\ MapInit

GpsNext == GpsCalculate

SpecGps == GpsInit /\ [][GpsNext]_vars

Init == DownloadInit /\ MapInit

Spec == Init /\ [][Next]_vars

MapSpecInit == Init /\ selected_date = gps_start_date

SpecMap == MapSpecInit /\ [][MapNext]_vars

----------------------------------------------------------------------------
(* Claims about calculate_gps_week_number (SpecGps) *)

\* calendar order of two dates
DateBefore(a, b) ==
    \/ a.year < b.year
    \/ a.year = b.year /\ a.month < b.month
    \/ a.year = b.year /\ a.month = b.month /\ a.day < b.day

\* whole days from the GPS epoch to d, counted on the calendar: the number of
\* dates from the epoch up to d, negative when d is earlier
WholeDaysFromEpoch(d) ==
    Cardinality({x \in Dates : ~DateBefore(x, gps_start_date) /\ DateBefore(x, d)})
        - Cardinality({x \in Dates : ~DateBefore(x, d) /\ DateBefore(x, gps_start_date)})

\* C1: for every date, also before 1980-01-06, with n the whole days from the
\* epoch to the date, week = floor(n / 7) and dayOfWeek = n mod 7 in 0..6, that
\* is 7 * week + dayOfWeek = n with 0 <= dayOfWeek <= 6; 1980-01-06 gives week 0,
\* day 0, day of year 6, year 1980, and the day before it week -1, day 6.
C1_FloorWeekAndDay ==
    gps # <<>> =>
        LET g == gps[1]
            n == WholeDaysFromEpoch(selected_date)
        IN  /\ g.days_since_start = n
            /\ 7 * g.gps_week + g.gps_day_of_week = n
            /\ g.gps_day_of_week \in 0..6
            /\ selected_date = [year |-> 1980, month |-> 1, day |-> 6] =>
                   /\ g.gps_week = 0 /\ g.gps_day_of_week = 0
                   /\ g.day_of_year = 6 /\ g.year = 1980
            /\ selected_date = [year |-> 1980, month |-> 1, day |-> 13] =>
                   g.gps_week = 1 /\ g.gps_day_of_week = 0
            /\ selected_date = [year |-> 1980, month |-> 1, day |-> 5] =>
                   g.gps_week = -1 /\ g.gps_day_of_week = 6

\* a date before the epoch has been converted: week -1, day 0
C1_Witness ==
    /\ gps # <<>>
    /\ selected_date = [year |-> 1979, month |-> 12, day |-> 30]
    /\ gps[1].days_since_start = -7
    /\ gps[1].gps_week = -1
    /\ gps[1].gps_day_of_week = 0

\* the conversion of every date of the window
AllGps == [d \in Dates |-> calculate_gps_week_number(d)]

\* C2: the composite identifier is week * 10 + dayOfWeek and decodes uniquely:
\* no other date with a different (week, dayOfWeek) has the same identifier,
\* and floor division / modulo by 10 give the week and the day back, for
\* negative weeks as well.
C2_CompositeDecodesUniquely ==
    gps # <<>> =>
        LET g == gps[1]
        IN  /\ g.gps_week_number = g.gps_week * 10 + g.gps_day_of_week
            /\ g.gps_week_number \div 10 = g.gps_week
            /\ g.gps_week_number % 10 = g.gps_day_of_week
            /\ \A d2 \in Dates :
                   <<AllGps[d2].gps_week, AllGps[d2].gps_day_of_week>>
                           # <<g.gps_week, g.gps_day_of_week>>
                       => AllGps[d2].gps_week_number # g.gps_week_number

\* a date of a negative week has been converted: 1979-12-31 is week -1, day 1,
\* identifier -9
C2_Witness ==
    /\ gps # <<>>
    /\ selected_date = [year |-> 1979, month |-> 12, day |-> 31]
    /\ gps[1].gps_week = -1
    /\ gps[1].gps_week_number = -9

----------------------------------------------------------------------------
(* Claims about download_efemerides (Spec) *)

Running == pc \in {"head", "get", "done"}

Labels(list) == [i \in 1..Len(list) |-> list[i].label]

\* the labels of the selected products in the order precise, rapid, gfz
SelectedLabels ==
    (IF download_precise THEN <<"Precisas JAX">> ELSE <<>>)
    \o (IF download_rapid THEN <<"Rápidas">> ELSE <<>>)
    \o (IF download_gfz THEN <<"GFZ">> ELSE <<>>)

\* C3: for every combination of the flags the list of products holds one entry
\* per selected product, none for an unselected one, in the order precise,
\* rapid, gfz; download_info follows it entry by entry and has its length
\* when the function returns.
C3_ProductsInFixedOrder ==
    Running =>
        /\ Labels(files_to_download) = SelectedLabels
        /\ Len(download_info) <= Len(files_to_download)
        /\ \A i \in 1..Len(download_info) :
               download_info[i].label = files_to_download[i].label
        /\ pc = "done" => Len(download_info) = Len(files_to_download)

\* a run with rapid and gfz selected and precise not selected has returned
C3_Witness ==
    /\ pc = "done"
    /\ ~download_precise /\ download_rapid /\ download_gfz
    /\ Labels(download_info) = <<"Rápidas", "GFZ">>

SameInputsAsPrevious ==
    /\ prev_run # <<>>
    /\ Running
    /\ prev_run[1].date = selected_date
    /\ prev_run[1].flags = <<download_precise, download_rapid, download_gfz>>

\* C4 as stated: two runs with the same date and flags give the same URLs, labels
\* and file names, and their entries differ in the status field only.
C4_OnlyStatusDiffers ==
    SameInputsAsPrevious =>
        /\ files_to_download = prev_run[1].files
        /\ \A i \in 1..Len(download_info) :
               /\ download_info[i].label = prev_run[1].info[i].label
               /\ download_info[i].filename = prev_run[1].info[i].filename
               /\ download_info[i].local_path = prev_run[1].info[i].local_path

\* C4 amended: two runs with the same date and flags give the same URLs, labels
\* and file names whatever the HEAD / GET outcomes are; the entries may differ
\* in status and in local_path, and in local_path only when the folder differs.
C4_UrlsIndependentOfNetwork ==
    SameInputsAsPrevious =>
        /\ files_to_download = prev_run[1].files
        /\ \A i \in 1..Len(download_info) :
               /\ download_info[i].label = prev_run[1].info[i].label
               /\ download_info[i].filename = prev_run[1].info[i].filename
               /\ tmpdir = prev_run[1].folder_path =>
                      download_info[i].local_path = prev_run[1].info[i].local_path

\* two completed runs with the same inputs and the same folder whose products
\* all ended differently
C4_Witness ==
    /\ SameInputsAsPrevious
    /\ pc = "done"
    /\ Len(download_info) = 2
    /\ tmpdir = prev_run[1].folder_path
    /\ \A i \in 1..Len(download_info) :
           download_info[i].status # prev_run[1].info[i].status

\* positions of the log holding a request of the method for the URL
RequestsOf(method, url) ==
    {j \in 1..Len(requests_log) :
        requests_log[j].method = method /\ requests_log[j].url = url}

\* position of the URL in files_to_download
ProductIndex(url) == CHOOSE i \in 1..Len(files_to_download) : files_to_download[i].url = url

\* C9: the products are handled one at a time in list order with a single
\* attempt each: per handled product exactly one HEAD and at most one GET, the
\* GET only after that product's HEAD answered 200; status is "Descargado" iff
\* HEAD answered 200 and the GET did not raise, "Error al descargar" iff HEAD
\* answered 200 and the GET raised, "No disponible" otherwise; no request is
\* issued for a product whose turn has not come.
C9_SingleAttemptPerProduct ==
    Running =>
        /\ \A j \in 1..Len(requests_log) :
               \E i \in 1..Len(files_to_download) :
                   files_to_download[i].url = requests_log[j].url
        /\ \A j, k \in 1..Len(requests_log) :
               j < k => ProductIndex(requests_log[j].url) <= ProductIndex(requests_log[k].url)
        /\ \A i \in 1..Len(files_to_download) :
               LET url == files_to_download[i].url
                   heads == RequestsOf("HEAD", url)
                   gets == RequestsOf("GET", url)
                   headOk == \E h \in heads : requests_log[h].outcome = "200"
                   getOk == \E g \in gets : requests_log[g].outcome # "Exception"
               IN  /\ Cardinality(gets) <= 1
                   /\ \A g \in gets :
                          \E h \in heads : h < g /\ requests_log[h].outcome = "200"
                   /\ i <= Len(download_info) =>
                          /\ Cardinality(heads) = 1
                          /\ headOk => Cardinality(gets) = 1
                          /\ download_info[i].status = "Descargado" <=> (headOk /\ getOk)
                          /\ download_info[i].status = "Error al descargar"
                                 <=> (headOk /\ ~getOk)
                          /\ download_info[i].status = "No disponible" <=> ~headOk
                   /\ i > Len(download_info) =>
                          /\ gets = {}
                          /\ Cardinality(heads) = (IF pc = "get" /\ i = idx THEN 1 ELSE 0)

\* a run of three products that ended in the three statuses
C9_Witness ==
    /\ pc = "done"
    /\ Len(download_info) = 3
    /\ download_info[1].status = "No disponible"
    /\ download_info[2].status = "Error al descargar"
    /\ download_info[3].status = "Descargado"
    /\ Len(requests_log) = 5

\* C10: a product is reported "Descargado" only if the GET for its URL was
\* answered with status 200.
C10_DownloadedOnlyOnGet200 ==
    Running =>
        \A i \in 1..Len(download_info) :
            download_info[i].status = "Descargado" =>
                \E g \in RequestsOf("GET", files_to_download[i].url) :
                    requests_log[g].outcome = "200"

----------------------------------------------------------------------------
(* Claims about the station search (SpecMap) *)

Min(a, b) == IF a < b THEN a ELSE b

CoordInRange(c) == LatitudeInRange(c[1]) /\ LongitudeInRange(c[2])

\* the ranking step ran: a table was read and a reference coordinate was set
RankingRan == map_result.kind \in {"ranked", "ranking_error"}

\* indices of the rows of the table that are not in the result
LeftOut ==
    {i \in 1..Len(map_result.df) :
        \A r \in 1..Len(map_result.df_sorted) : map_result.df_sorted[r].index # i}

\* the result holds min(k, len) rows of non-decreasing distance and no row
\* left out is strictly closer than a returned one
IsKNearest ==
    /\ map_result.kind = "ranked"
    /\ Len(map_result.df_sorted) = Min(num_estaciones, Len(map_result.df))
    /\ \A i, j \in 1..Len(map_result.df_sorted) :
           i < j => map_result.df_sorted[i].Distancia_km
                        <= map_result.df_sorted[j].Distancia_km
    /\ \A i \in LeftOut : \A r \in 1..Len(map_result.df_sorted) :
           geodesic(user_coord, <<map_result.df[i].Latitud, map_result.df[i].Longitud>>)
               >= map_result.df_sorted[r].Distancia_km

\* C5: for every reference coordinate (here: every one inside the valid
\* ranges), every station table, the empty one included, and every k >= 1 the
\* ranking step returns min(k, len(stations)) stations of non-decreasing
\* distance, no station left out being strictly closer than a returned one;
\* the empty table gives an empty result and not an error.
C5_RankingReturnsKNearest ==
    (RankingRan /\ CoordInRange(user_coord)) => IsKNearest

\* what remains of C5 on the code: the same on every table that has a row
C5_HoldsOnTablesWithRows ==
    (RankingRan /\ CoordInRange(user_coord) /\ map_result.df # <<>>) => IsKNearest

\* C6: stations at exactly the same distance are ranked in the order of the
\* table, in the result and in the choice of the tied stations that enter it.
C6_TiesInTableOrder ==
    map_result.kind = "ranked" =>
        /\ \A i, j \in 1..Len(map_result.df_sorted) :
               (i < j /\ map_result.df_sorted[i].Distancia_km
                             = map_result.df_sorted[j].Distancia_km)
                   => map_result.df_sorted[i].index < map_result.df_sorted[j].index
        /\ \A x \in LeftOut : \A r \in 1..Len(map_result.df_sorted) :
               geodesic(user_coord, <<map_result.df[x].Latitud, map_result.df[x].Longitud>>)
                       = map_result.df_sorted[r].Distancia_km
                   => map_result.df_sorted[r].index < x

\* magnitude = |deg| + min/60 + sec/3600, negated when deg < 0
SignedMagnitude(deg, min, sec) ==
    LET magnitude == Abs(deg) * UnitsPerDegree + min * 60 * SecScale + sec
    IN  IF deg >= 0 THEN magnitude ELSE -magnitude

\* C7: the latitude and the longitude of the DMS form are
\* |deg| + min/60 + sec/3600 with the sign of deg, so that with negative
\* degrees the minutes and seconds move the value away from zero.
C7_DmsSignedMagnitude ==
    user_coord # <<>> =>
        /\ user_coord[1]
               = SignedMagnitude(dms_input.lat_deg, dms_input.lat_min, dms_input.lat_sec)
        /\ user_coord[2]
               = SignedMagnitude(dms_input.lon_deg, dms_input.lon_min, dms_input.lon_sec)

\* C8: no coordinate with a latitude outside [-90, 90] or a longitude outside
\* [-180, 180] reaches the geodesic distance computation.
C8_OutOfRangeNeverReachesGeodesic ==
    \A c \in geodesic_calls : CoordInRange(c)

====
